---- MODULE Spec2Model ----
(***************************************************************************)
(* Model of webcat_web/src/request.rs: the Request builder (an optional    *)
(* timeout), Request::send and Request::parse_url.                         *)
(*                                                                         *)
(* Strings are sequences of one-character strings so that starts_with,     *)
(* format!("http://{}", url) and the URL parser work on characters.        *)
(* Option<T> is a sequence of length 0 (None) or 1 (Some).                 *)
(***************************************************************************)
EXTENDS Integers, Sequences, FiniteSets, TLC

VARIABLES
    timeout,    \* Request.timeout: Option<Duration>
    setCount,   \* history: number of with_timeout calls made on the builder
    lastSet,    \* history: argument of the most recent with_timeout call
    pc,         \* per send call: its position in send
    method,     \* per send call: the `method` argument
    target,     \* per send call: the `url` argument (the target string)
    parsed,     \* per send call: the value of Self::parse_url(url)
    client,     \* per send call: the client made by Client::new()
    raw,        \* per send call: what request.send() returned
    result,     \* per send call: the RequestResult returned to the caller
    attempts,   \* per send call: number of dispatches to the transport
    inflight    \* transport: per client, the request moved into it by
                \* request.send() and not yet answered

vars == <<timeout, setCount, lastSet, pc, method, target, parsed, client,
          raw, result, attempts, inflight>>

\* ---------------------------------------------------------------- bounds
NumCalls   == 2     \* send calls (each may run concurrently with the others)
MaxTimeout == 2     \* durations are 1..MaxTimeout
MaxSets    == 2     \* with_timeout calls on the builder

Calls     == 1..NumCalls
Durations == 1..MaxTimeout

\* ------------------------------------------------------------ Option<T>
None    == <<>>
Some(v) == <<v>>

\* ------------------------------------------------------------- strings
HttpPrefix  == <<"h","t","t","p",":","/","/">>
HttpsPrefix == <<"h","t","t","p","s",":","/","/">>

starts_with(s, p) == Len(s) >= Len(p) /\ SubSeq(s, 1, Len(p)) = p

DigitChars == <<"0","1","2","3","4","5","6","7","8","9">>
IsDigit(ch) == \E i \in 1..10 : DigitChars[i] = ch
DigitVal(ch) == (CHOOSE i \in 1..10 : DigitChars[i] = ch) - 1

\* the letters of the model's alphabet
LowerLetters == {"a","h","p","s","t"}
UpperLetters == {"A","H","P","S","T"}
IsAlpha(ch) == ch \in LowerLetters \cup UpperLetters
to_ascii_lowercase(ch) ==
    CASE ch = "A" -> "a" [] ch = "H" -> "h" [] ch = "P" -> "p"
      [] ch = "S" -> "s" [] ch = "T" -> "t" [] OTHER -> ch
LowerStr(s) == [i \in 1..Len(s) |-> to_ascii_lowercase(s[i])]

\* index of the first occurrence of ch in s, 0 when there is none
IndexOf(s, ch) ==
    IF \E i \in 1..Len(s) : s[i] = ch
    THEN CHOOSE i \in 1..Len(s) : s[i] = ch /\ \A j \in 1..(i-1) : s[j] # ch
    ELSE 0

\* s without its leading '/' characters
RECURSIVE SkipSlashes(_)
SkipSlashes(s) ==
    IF s # <<>> /\ Head(s) = "/" THEN SkipSlashes(Tail(s)) ELSE s

\* ---------------------------------------------------------- Url::parse
MaxPort == 2^16 - 1

RECURSIVE PortValue(_)
PortValue(ds) ==
    IF ds = <<>> THEN 0
    ELSE PortValue(SubSeq(ds, 1, Len(ds) - 1)) * 10 + DigitVal(ds[Len(ds)])

DefaultPort(scheme) ==
    CASE scheme = <<"h","t","t","p">>     -> 80
      [] scheme = <<"h","t","t","p","s">> -> 443
      [] OTHER -> 0

ParseOk(u)    == [ok |-> TRUE,  url |-> Some(u), err |-> ""]
ParseErr(msg) == [ok |-> FALSE, url |-> None,    err |-> msg]

\* The url crate's parser on the strings parse_url hands to it, which all
\* begin with "http://" or "https://": scheme, then the authority
\* (host[:port]) up to the next '/', then the path. Scheme and host are
\* lowercased, a port must be digits with a value of at most MaxPort, and
\* the scheme's default port is dropped. The alphabet is the letters above,
\* the digits, ':' and '/'; hosts are letters only.
UrlParse(s) ==
    LET colon == IndexOf(s, ":")
        validScheme == /\ colon > 1
                       /\ IsAlpha(s[1])
                       /\ \A i \in 2..(colon - 1) : IsAlpha(s[i]) \/ IsDigit(s[i])
    IN  IF ~validScheme THEN ParseErr("relative URL without a base")
        ELSE
        LET scheme == LowerStr(SubSeq(s, 1, colon - 1))
            after  == SkipSlashes(SubSeq(s, colon + 1, Len(s)))
            slash  == IndexOf(after, "/")
            auth   == IF slash = 0 THEN after ELSE SubSeq(after, 1, slash - 1)
            path   == IF slash = 0 THEN <<"/">> ELSE SubSeq(after, slash, Len(after))
            c2     == IndexOf(auth, ":")
            host   == IF c2 = 0 THEN auth ELSE SubSeq(auth, 1, c2 - 1)
            port   == IF c2 = 0 THEN <<>> ELSE SubSeq(auth, c2 + 1, Len(auth))
        IN  IF host = <<>> THEN ParseErr("empty host")
            ELSE IF \E i \in 1..Len(port) : ~IsDigit(port[i])
                 THEN ParseErr("invalid port number")
            ELSE IF port # <<>> /\ PortValue(port) > MaxPort
                 THEN ParseErr("invalid port number")
            ELSE ParseOk([scheme |-> scheme,
                          host   |-> LowerStr(host),
                          port   |-> IF port = <<>> \/ PortValue(port) = DefaultPort(scheme)
                                     THEN None ELSE Some(PortValue(port)),
                          path   |-> path])

\* ------------------------------------------------------- RequestError
ConnectionFailed(msg)     == [variant |-> "ConnectionFailed",     msg |-> msg]
InvalidConfiguration(msg) == [variant |-> "InvalidConfiguration", msg |-> msg]

Ok(v)  == [ok |-> TRUE,  val |-> Some(v), err |-> None]
Err(e) == [ok |-> FALSE, val |-> None,    err |-> Some(e)]

\* -------------------------------------------------------- input domains
Str_a      == <<"a">>
Str_port   == <<":","9","9","9","9","9">>

\* targets of the concurrent specification
Targets == { Str_a, HttpsPrefix \o Str_a, Str_a \o Str_port }

\* targets of the single-call specification: prefix, host, port part, path
Prefixes  == { <<>>, HttpPrefix, HttpsPrefix,
               <<"H","T","T","P",":","/","/">>, <<"h","t","t","p",":">> }
Hosts     == { <<>>, <<"a">>, <<"A">> }
PortParts == { <<>>, <<":">>, <<":","8","0">>, <<":","4","4","3">>,
               <<":","7","5","3">>, <<":","6","5","5","3","5">>,
               <<":","6","5","5","3","6">>, Str_port, <<":","7","a">> }
Paths     == { <<>>, <<"/">>, <<"/","p">> }
UrlTargets == { p \o h \o q \o r :
                p \in Prefixes, h \in Hosts, q \in PortParts, r \in Paths }

RequestMethod   == {"GET", "POST"}
Statuses        == {200, 404}
Bodies          == {"test server", "ok"}
TransportErrors == {"connection refused", "operation timed out"}

\* -------------------------------------------------------------- Request
\* Request::new
new == None

\* Request::with_timeout: the value of self.timeout afterwards
with_timeout_accumulate(self, duration) ==
    IF self = None THEN Some(duration) ELSE Some(self[1] + duration)
with_timeout(self, duration) == Some(duration)

\* Request::parse_url
parse_url_https(url) ==
    LET r == IF ~(starts_with(url, HttpPrefix) \/ starts_with(url, HttpsPrefix))
             THEN UrlParse(HttpsPrefix \o url)
             ELSE UrlParse(url)
    IN  IF r.ok THEN Ok(r.url[1]) ELSE Err(InvalidConfiguration(r.err))
parse_url(url) ==
    LET r == IF ~(starts_with(url, HttpPrefix) \/ starts_with(url, HttpsPrefix))
             THEN UrlParse(HttpPrefix \o url)
             ELSE UrlParse(url)
    IN  IF r.ok THEN Ok(r.url[1]) ELSE Err(InvalidConfiguration(r.err))

\* send, lines 25-28: RequestMethod to reqwest::Method
to_reqwest_method(m) ==
    CASE m = "GET"  -> "reqwest::Method::GET"
      [] m = "POST" -> "reqwest::Method::POST"

\* send, line 23: every call makes a client of its own
ClientShared(c) == 1
ClientNew(c) == c

\* send, lines 30-35: the request built from method, url and self.timeout
build_request(m, url, tmo) ==
    [method |-> to_reqwest_method(m), url |-> url, timeout |-> tmo]

\* the transport's answer to request.send(): a response or an error
TransportOk(status, body, url) ==
    [ok |-> TRUE, status |-> status, body |-> body, url |-> Some(url), msg |-> ""]
TransportErr(msg) ==
    [ok |-> FALSE, status |-> 0, body |-> "", url |-> None, msg |-> msg]
TransportOutcomes(req) ==
    { TransportOk(s, b, req.url) : s \in Statuses, b \in Bodies }
      \cup { TransportErr(m) : m \in TransportErrors }

\* one dispatch of a request to the transport (request.send())
TransportSendRetry(n) == n + 2
TransportSend(n) == n + 1

\* Response::from_reqwest, status_code() and text()
from_reqwest(resp) == [status_code |-> resp.status, text |-> resp.body]

\* send, lines 36-40: the transport's answer mapped to the RequestResult
map_send_result_status(out) ==
    IF out.ok /\ out.status < 400 THEN Ok(from_reqwest(out))
    ELSE Err(ConnectionFailed(out.msg))
map_send_result_variant(out) ==
    IF out.ok THEN Ok(from_reqwest(out))
    ELSE Err(InvalidConfiguration(out.msg))
map_send_result(out) ==
    IF out.ok THEN Ok(from_reqwest(out))
    ELSE Err(ConnectionFailed(out.msg))

\* send takes &self: the builder after a step of send
SelfTaken(self) == None
SelfAfterSend(self) == self

\* -------------------------------------------------------------- states
\* send blocks in request.send(), so a call is three steps: the call itself
\* (Unsent -> Parsing), lines 22-37 up to the request being handed to the
\* transport (Parsing -> ParseError | Sending), and lines 36-40 from the
\* transport's answer to the return (Sending -> TransportError | Received).
\* Steps of different calls interleave; the transport's answer is an input.
Terminal == {"ParseError", "TransportError", "Received"}
InFlight == {"Parsing", "Sending"}

Init ==
    /\ timeout  = new
    /\ setCount = 0
    /\ lastSet  = None
    /\ pc       = [c \in Calls |-> "Unsent"]
    /\ method   = [c \in Calls |-> None]
    /\ target   = [c \in Calls |-> None]
    /\ parsed   = [c \in Calls |-> None]
    /\ client   = [c \in Calls |-> None]
    /\ raw      = [c \in Calls |-> None]
    /\ result   = [c \in Calls |-> None]
    /\ attempts = [c \in Calls |-> 0]
    /\ inflight = [k \in Calls |-> None]

\* with_timeout(self, duration) moves the builder, so no send borrows it
WithTimeout ==
    /\ \A c \in Calls : pc[c] \notin InFlight
    /\ setCount < MaxSets
    /\ \E d \in Durations :
         /\ timeout' = with_timeout(timeout, d)
         /\ lastSet' = Some(d)
    /\ setCount' = setCount + 1
    /\ UNCHANGED <<pc, method, target, parsed, client, raw, result,
                   attempts, inflight>>

\* send is called with (method, url)
SendCallWith(c, T) ==
    /\ pc[c] = "Unsent"
    /\ \E m \in RequestMethod, t \in T :
         /\ method' = [method EXCEPT ![c] = Some(m)]
         /\ target' = [target EXCEPT ![c] = Some(t)]
    /\ pc' = [pc EXCEPT ![c] = "Parsing"]
    /\ timeout' = SelfAfterSend(timeout)
    /\ UNCHANGED <<setCount, lastSet, parsed, client, raw, result,
                   attempts, inflight>>

\* send, lines 22-37: parse_url(url)?, then client, request, timeout, and
\* the request handed to the transport
ParseStepNoReturn(c) ==
    /\ pc[c] = "Parsing"
    /\ LET r   == parse_url(target[c][1])
           k   == ClientNew(c)
           req == build_request(method[c][1], r.val, timeout)
       IN  /\ parsed' = [parsed EXCEPT ![c] = Some(r)]
           /\ client'   = [client EXCEPT ![c] = Some(k)]
           /\ attempts' = [attempts EXCEPT ![c] = TransportSend(attempts[c])]
           /\ inflight' = [inflight EXCEPT ![k] = Some(req)]
           /\ pc'       = [pc EXCEPT ![c] = "Sending"]
           /\ result'   = IF r.ok THEN result
                          ELSE [result EXCEPT ![c] = Some(Err(r.err[1]))]
    /\ timeout' = SelfAfterSend(timeout)
    /\ UNCHANGED <<setCount, lastSet, method, target, raw>>
ParseStep(c) ==
    /\ pc[c] = "Parsing"
    /\ LET r == parse_url(target[c][1])
       IN  /\ parsed' = [parsed EXCEPT ![c] = Some(r)]
           /\ IF ~r.ok
              THEN /\ result' = [result EXCEPT ![c] = Some(Err(r.err[1]))]
                   /\ pc'     = [pc EXCEPT ![c] = "ParseError"]
                   /\ UNCHANGED <<client, attempts, inflight>>
              ELSE LET k   == ClientNew(c)
                       req == build_request(method[c][1], r.val[1], timeout)
                   IN  /\ client'   = [client EXCEPT ![c] = Some(k)]
                       /\ attempts' = [attempts EXCEPT ![c] = TransportSend(attempts[c])]
                       /\ inflight' = [inflight EXCEPT ![k] = Some(req)]
                       /\ pc'       = [pc EXCEPT ![c] = "Sending"]
                       /\ UNCHANGED result
    /\ timeout' = SelfAfterSend(timeout)
    /\ UNCHANGED <<setCount, lastSet, method, target, raw>>

\* send, lines 36-40: request.send() returns, the answer is mapped and
\* send returns
TransportReturn(c) ==
    /\ pc[c] = "Sending"
    /\ inflight[client[c][1]] # None
    /\ \E out \in TransportOutcomes(inflight[client[c][1]][1]) :
         /\ raw'    = [raw EXCEPT ![c] = Some(out)]
         /\ result' = [result EXCEPT ![c] = Some(map_send_result(out))]
         /\ pc'     = [pc EXCEPT ![c] =
                          IF map_send_result(out).ok THEN "Received"
                          ELSE "TransportError"]
    /\ inflight' = [inflight EXCEPT ![client[c][1]] = None]
    /\ timeout' = SelfAfterSend(timeout)
    /\ UNCHANGED <<setCount, lastSet, method, target, parsed, client, attempts>>

SendCall(c) == SendCallWith(c, Targets)

Next ==
    \/ WithTimeout
    \/ \E c \in Calls : SendCall(c)
    \/ \E c \in Calls : ParseStep(c)
    \/ \E c \in Calls : TransportReturn(c)

Spec == Init /\ [][Next]_vars

\* One send call at a time over the larger set of targets.
SendCallUrl == SendCallWith(1, UrlTargets)

NextUrl ==
    \/ WithTimeout
    \/ SendCallUrl
    \/ ParseStep(1)
    \/ TransportReturn(1)

SpecUrl == Init /\ [][NextUrl]_vars

TypeOK ==
    /\ timeout \in {None} \cup {Some(d) : d \in Durations}
    /\ \A c \in Calls : pc[c] \in {"Unsent"} \cup InFlight \cup Terminal

\* ---------------------------------------------------------------- claims
HasSchemePrefix(t) == starts_with(t, HttpPrefix) \/ starts_with(t, HttpsPrefix)
Normalized(t) == IF HasSchemePrefix(t) THEN t ELSE HttpPrefix \o t
Done(c) == pc[c] \in Terminal
IsVariant(res, v) == res # None /\ ~res[1].ok /\ res[1].err[1].variant = v

\* what send(_, t) returns when the transport's answer, if any, is rawOpt
ExpectedResult(t, rawOpt) ==
    IF ~parse_url(t).ok THEN Err(parse_url(t).err[1])
    ELSE map_send_result(rawOpt[1])

RECURSIVE SumTo(_, _)
SumTo(f, n) == IF n = 0 THEN 0 ELSE f[n] + SumTo(f, n - 1)

\* C1: when the target, after scheme normalization, fails URL parsing, send
\* returns Err(InvalidConfiguration(parser message)) and the call has made
\* no client and dispatched nothing to the transport.
C1_ParseFailure ==
    \A c \in Calls :
        (pc[c] \notin {"Unsent", "Parsing"}
           /\ ~UrlParse(Normalized(target[c][1])).ok)
        => /\ pc[c] = "ParseError"
           /\ result[c] = Some(Err(InvalidConfiguration(
                                UrlParse(Normalized(target[c][1])).err)))
           /\ client[c] = None
           /\ attempts[c] = 0
           /\ raw[c] = None
           /\ \A k \in Calls : inflight[k] = None

C1_Witness ==
    \E c \in Calls :
        /\ pc[c] = "ParseError"
        /\ target[c][1] = HttpPrefix \o Str_a \o Str_port
        /\ IsVariant(result[c], "InvalidConfiguration")
        /\ attempts[c] = 0

\* C2: a transport-level failure of a dispatched request is returned as
\* Err(ConnectionFailed(transport message)), and ConnectionFailed is only
\* returned by a call whose target parsed and whose request was dispatched
\* and failed in the transport.
C2_ConnectionFailed ==
    \A c \in Calls :
        /\ (raw[c] # None /\ ~raw[c][1].ok)
           => /\ parsed[c][1].ok
              /\ result[c] = Some(Err(ConnectionFailed(raw[c][1].msg)))
        /\ IsVariant(result[c], "ConnectionFailed")
           => /\ UrlParse(Normalized(target[c][1])).ok
              /\ parsed[c][1].ok
              /\ attempts[c] >= 1
              /\ raw[c] # None /\ ~raw[c][1].ok

C2_Witness ==
    \E c \in Calls :
        /\ pc[c] = "TransportError"
        /\ result[c] = Some(Err(ConnectionFailed("connection refused")))
        /\ timeout # None

\* C3: for a target t without "http://" or "https://" in front, the call
\* parses to, dispatches and returns what it would for "http://" + t; a
\* target with one of the two prefixes is parsed as it is.
C3_SchemeDefault ==
    \A c \in Calls :
        parsed[c] # None =>
        LET t == target[c][1] IN
        /\ ~HasSchemePrefix(t) =>
             /\ parsed[c][1] = parse_url(HttpPrefix \o t)
             /\ pc[c] = "Sending" =>
                  inflight[client[c][1]][1].url = parse_url(HttpPrefix \o t).val[1]
             /\ Done(c) => result[c][1] = ExpectedResult(HttpPrefix \o t, raw[c])
        /\ HasSchemePrefix(t) =>
             /\ parsed[c][1].ok = UrlParse(t).ok
             /\ parsed[c][1].val = UrlParse(t).url

C3_Witness ==
    \E c \in Calls :
        /\ pc[c] = "Received"
        /\ target[c][1] = <<"A">> \o <<":","7","5","3">>
        /\ parsed[c][1].val[1].scheme = <<"h","t","t","p">>
        /\ parsed[c][1].val[1].port = Some(753)

\* C4: when the transport completes the exchange with status S and body B,
\* whatever S is, send returns Ok(Response) with status_code() = S and
\* text() = B.
C4_StatusIsNotAnError ==
    \A c \in Calls :
        (raw[c] # None /\ raw[c][1].ok)
        => /\ pc[c] = "Received"
           /\ result[c] # None
           /\ result[c][1].ok
           /\ result[c][1].val[1].status_code = raw[c][1].status
           /\ result[c][1].val[1].text = raw[c][1].body

C4_Witness ==
    \E c \in Calls :
        /\ pc[c] = "Received"
        /\ raw[c][1].status = 404
        /\ result[c][1].ok
        /\ result[c][1].val[1].status_code = 404

\* C5: the timeout of a dispatched request is the argument of the most
\* recent with_timeout call on the builder, and there is none when
\* with_timeout was never called.
C5_LastTimeoutWins ==
    \A c \in Calls :
        pc[c] = "Sending"
        => /\ inflight[client[c][1]] # None
           /\ inflight[client[c][1]][1].timeout = lastSet
           /\ setCount = 0 => inflight[client[c][1]][1].timeout = None

C5_Witness ==
    \E c \in Calls :
        /\ pc[c] = "Sending"
        /\ setCount >= 2
        /\ inflight[client[c][1]][1].timeout = Some(1)

\* C6: a call has dispatched nothing before and at a parse failure and
\* exactly once from its dispatch on, also after a transport failure; the
\* dispatches of all calls together never exceed the calls made.
C6_OneDispatchPerCall ==
    /\ \A c \in Calls :
         /\ pc[c] \in {"Unsent", "Parsing", "ParseError"} => attempts[c] = 0
         /\ pc[c] \in {"Sending", "TransportError", "Received"} => attempts[c] = 1
    /\ SumTo(attempts, NumCalls) <= Cardinality({c \in Calls : pc[c] # "Unsent"})

C6_Witness ==
    \E c, d \in Calls :
        /\ pc[c] = "TransportError" /\ attempts[c] = 1
        /\ pc[d] = "ParseError" /\ attempts[d] = 0

\* C7: a call has a result exactly when it is in a terminal state, a
\* Response in Received and an Error in ParseError and TransportError; and
\* it moves only Unsent -> Parsing -> ParseError | Sending, Sending ->
\* TransportError | Received, entering Sending only with a parsed URL, and a
\* terminal state and its result never change.
C7_Edges ==
    { <<"Unsent", "Parsing">>, <<"Parsing", "ParseError">>,
      <<"Parsing", "Sending">>, <<"Sending", "TransportError">>,
      <<"Sending", "Received">> }

C7_OneResult ==
    \A c \in Calls :
        /\ Done(c) <=> result[c] # None
        /\ pc[c] = "Received"
           => result[c][1].ok /\ result[c][1].val # None /\ result[c][1].err = None
        /\ pc[c] \in {"ParseError", "TransportError"}
           => ~result[c][1].ok /\ result[c][1].val = None /\ result[c][1].err # None

C7_Step ==
    \A c \in Calls :
        /\ pc'[c] # pc[c] => <<pc[c], pc'[c]>> \in C7_Edges
        /\ (pc[c] = "Parsing" /\ pc'[c] = "Sending") => parsed'[c][1].ok
        /\ Done(c) => result'[c] = result[c]

C7_StateMachine == [](C7_OneResult) /\ [][C7_Step]_vars

C7_Witness ==
    \E b, d \in Calls :
        /\ pc[b] = "ParseError" /\ IsVariant(result[b], "InvalidConfiguration")
        /\ pc[d] = "Received" /\ result[d][1].ok /\ result[d][1].err = None

\* C8: no step of a send call, whatever its outcome, changes the builder's
\* timeout.
C8_SendLeavesBuilder ==
    [][(\E c \in Calls : pc'[c] # pc[c]) => timeout' = timeout]_vars

C8_Witness ==
    \E c, d \in Calls :
        /\ c # d
        /\ Done(c)
        /\ pc[d] = "Sending"
        /\ timeout # None
        /\ inflight[client[d][1]][1].timeout = timeout

\* C9: calls that have made a client have different clients, the request a
\* call has in flight is the one built from its own arguments, the answer it
\* gets is for its own URL, and its result is what its own target and its
\* own transport answer give.
C9_Independent ==
    /\ \A c, d \in Calls :
         (c # d /\ client[c] # None /\ client[d] # None) => client[c] # client[d]
    /\ \A c \in Calls :
         /\ pc[c] = "Sending" =>
              /\ inflight[client[c][1]] # None
              /\ inflight[client[c][1]][1].method = to_reqwest_method(method[c][1])
              /\ inflight[client[c][1]][1].url = parsed[c][1].val[1]
         /\ (raw[c] # None /\ raw[c][1].ok) => raw[c][1].url = parsed[c][1].val
         /\ Done(c) => result[c][1] = ExpectedResult(target[c][1], raw[c])

C9_Witness ==
    \E c, d \in Calls :
        /\ c # d
        /\ pc[c] = "Sending" /\ pc[d] = "Sending"
        /\ inflight[client[c][1]][1].url # inflight[client[d][1]][1].url

\* C10: two finished calls with the same target string either both
\* returned InvalidConfiguration, with the same message, or neither did.
C10_Deterministic ==
    \A c, d \in Calls :
        (Done(c) /\ Done(d) /\ target[c] = target[d])
        => /\ IsVariant(result[c], "InvalidConfiguration")
                <=> IsVariant(result[d], "InvalidConfiguration")
           /\ IsVariant(result[c], "InvalidConfiguration")
                => result[c][1].err[1].msg = result[d][1].err[1].msg

C10_Witness ==
    \E c, d \in Calls :
        /\ c # d
        /\ pc[c] = "ParseError" /\ pc[d] = "ParseError"
        /\ target[c] = target[d]
        /\ method[c] # method[d]
====
